---- MODULE Spec2Model ----
(***************************************************************************)
(* The SNAP launcher (src/src/launcher.py): the command queue filled by    *)
(* the key bindings and by the TCP connection handlers, the per-frame      *)
(* task _main_loop_tick that drains it, and the MainApp methods that       *)
(* load, start, cancel and prune the experiment module.                    *)
(*                                                                         *)
(* Text is a sequence of one-character strings.  An item of the queue is   *)
(* a Python object: a str (put by a key binding) or a bytes (put by a      *)
(* connection handler, which reads its lines from a binary stream).        *)
(***************************************************************************)
EXTENDS Integers, Sequences, FiniteSets, TLC

\* ------------------------------------------------------------------ bounds

\* Commands put on the queue in one behaviour (key presses and lines).
MaxCmds == 2

\* Remote connections.
NumConns == 2

\* -------------------------------------------------------------------- text

Str(data) == [type |-> "str", data |-> data]

Bytes(data) == [type |-> "bytes", data |-> data]

IsSpace(c) == c \in {" ", "\n", "\t", "\r"}

RECURSIVE LStrip(_)
LStrip(s) ==
  IF s # <<>> /\ IsSpace(Head(s)) THEN LStrip(Tail(s)) ELSE s

RECURSIVE RStrip(_)
RStrip(s) ==
  IF s # <<>> /\ IsSpace(s[Len(s)]) THEN RStrip(SubSeq(s, 1, Len(s) - 1)) ELSE s

\* str.strip() and bytes.strip()
Strip(s) == RStrip(LStrip(s))

\* str(x): a str is itself; a bytes is its repr, b'...'
PyStr(x) ==
  IF x.type = "bytes" THEN <<"b", "'">> \o x.data \o <<"'">> ELSE x.data

StartsWith(s, p) == Len(s) >= Len(p) /\ SubSeq(s, 1, Len(p)) = p

EndsWith(s, p) == Len(s) >= Len(p) /\ SubSeq(s, Len(s) - Len(p) + 1, Len(s)) = p

\* s[n:]
From(s, n) == SubSeq(s, n + 1, Len(s))

T_start == <<"s", "t", "a", "r", "t">>
T_cancel == <<"c", "a", "n", "c", "e", "l">>
T_stop == <<"s", "t", "o", "p">>
T_prune == <<"p", "r", "u", "n", "e">>
T_load == <<"l", "o", "a", "d", " ">>
T_setup == <<"s", "e", "t", "u", "p", " ">>
T_config == <<"c", "o", "n", "f", "i", "g", " ">>
T_cfg == <<".", "c", "f", "g">>

\* ------------------------------------------------------------ environment

\* Module names: "a" and "b" import and construct, "k" imports but its
\* Main() raises, "n" is found nowhere.
M_a == <<"a">>
M_b == <<"b">>
M_k == <<"k">>
M_n == <<"n">>

CanImport(name) == name \in {M_a, M_b, M_k}

CanConstruct(name) == name \in {M_a, M_b}

\* Study configs: s.cfg lies in the study path, w.cfg in the working
\* directory, m.cfg nowhere.
F_s == <<"s">> \o T_cfg
F_w == <<"w">> \o T_cfg
F_m == <<"m">> \o T_cfg

A_x1 == <<"x", "=", "1">>
A_y2 == <<"y", "=", "2">>
A_bad == <<"x", "=">>

InCwd(name) == name = F_w

InStudyPath(name) == name = F_s

\* The lines of a config file, each with its newline.
FileLines(name) ==
  IF name = F_s
  THEN << M_a \o <<"\n">>, A_x1 \o <<"\n">>, A_bad \o <<"\n">>, A_y2 \o <<"\n">> >>
  ELSE << M_n \o <<"\n">>, A_x1 \o <<"\n">> >>

\* The outcomes of the module instance's methods in one step: whether each
\* returns (TRUE) or raises (FALSE).
Envs == [start : BOOLEAN, cancel : BOOLEAN, prune : BOOLEAN, tick : BOOLEAN]

\* ---------------------------------------------------------------- session

\* No module instance (Python's None); instances are numbered from 1.
None == 0

NoModule == <<>>

NoAttrs == [k \in {"x", "y"} |-> "unset"]

\* The session as the MainApp methods see it.  calls lists the calls made
\* on module instances by the running step, began and pruned tell whether
\* the held instance has had start() with no cancel() since, and prune();
\* raised tells that an exception is propagating.
Session(i, m, e, a, n, b, p) ==
  [instance |-> i, module |-> m, executing |-> e, attrs |-> a, nextId |-> n,
   began |-> b, pruned |-> p, calls |-> <<>>, raised |-> FALSE]

Call(s, op, ok) ==
  [s EXCEPT !.calls = Append(@, [op |-> op, inst |-> s.instance, ok |-> ok])]

Raise(s) == [s EXCEPT !.raised = TRUE]

\* prune_module without its test for an instance.
prune_module_unguarded(s, env) ==
  [Call(s, "prune", env.prune) EXCEPT !.pruned = TRUE]

\* prune_module that lets the exception of prune() out.
prune_module_uncaught(s, env) ==
  IF s.instance # None
  THEN LET c == [Call(s, "prune", env.prune) EXCEPT !.pruned = TRUE]
       IN  IF env.prune THEN c ELSE Raise(c)
  ELSE s

\* prune_module: the instance's prune(), whose exception is caught.
prune_module(s, env) ==
  IF s.instance # None
  THEN [Call(s, "prune", env.prune) EXCEPT !.pruned = TRUE]
  ELSE s

\* cancel_module that only clears the flag.
cancel_module_silent(s, env) == [s EXCEPT !.executing = FALSE]

\* cancel_module that catches what cancel() raises.
cancel_module_caught(s, env) ==
  IF s.instance # None /\ s.executing
  THEN [Call(s, "cancel", env.cancel) EXCEPT !.began = FALSE,
                                              !.executing = FALSE]
  ELSE [s EXCEPT !.executing = FALSE]

\* cancel_module: the instance's cancel() if executing; then not executing.
cancel_module(s, env) ==
  IF s.instance # None /\ s.executing
  THEN LET c == [Call(s, "cancel", env.cancel) EXCEPT !.began = FALSE]
       IN  IF env.cancel THEN [c EXCEPT !.executing = FALSE] ELSE Raise(c)
  ELSE [s EXCEPT !.executing = FALSE]

\* start_module without its test for an instance.
start_module_unguarded(s, env) ==
  LET c == cancel_module(s, env)
  IN  IF c.raised THEN c
      ELSE LET t == [Call(c, "start", env.start) EXCEPT !.began = TRUE]
           IN  IF env.start THEN [t EXCEPT !.executing = TRUE] ELSE Raise(t)

\* start_module: with an instance, cancel_module, then start(), then executing.
start_module(s, env) ==
  IF s.instance # None
  THEN LET c == cancel_module(s, env)
       IN  IF c.raised THEN c
           ELSE LET t == [Call(c, "start", env.start) EXCEPT !.began = TRUE]
                IN  IF env.start THEN [t EXCEPT !.executing = TRUE] ELSE Raise(t)
  ELSE s

\* load_module that replaces the instance without pruning the held one.
load_module_unpruned(s, name, env) ==
  IF Len(name) > 0
  THEN IF ~CanImport(name) THEN Raise(s)
       ELSE LET m == [s EXCEPT !.module = name]
            IN  IF ~CanConstruct(name) THEN Raise(m)
                ELSE [m EXCEPT !.instance = m.nextId,
                               !.nextId = m.nextId + 1,
                               !.attrs = NoAttrs,
                               !.began = FALSE,
                               !.pruned = FALSE]
  ELSE s

\* load_module: prune what is held, import the module, construct its Main.
load_module(s, name, env) ==
  IF Len(name) > 0
  THEN LET p == IF s.instance # None THEN prune_module(s, env) ELSE s
       IN  IF ~CanImport(name) THEN Raise(p)
           ELSE LET m == [p EXCEPT !.module = name]
                IN  IF ~CanConstruct(name) THEN Raise(m)
                    ELSE [m EXCEPT !.instance = m.nextId,
                                   !.nextId = m.nextId + 1,
                                   !.attrs = NoAttrs,
                                   !.began = FALSE,
                                   !.pruned = FALSE]
  ELSE s

\* exec(stmt, instance.__dict__) for the statements of the model: "k=v"
\* assigns, an empty statement does nothing, anything else raises; with no
\* instance the look-up of __dict__ raises.
ExecOk(s, stmt) ==
  /\ s.instance # None
  /\ \/ Strip(stmt) = <<>>
     \/ /\ Len(Strip(stmt)) = 3
        /\ Strip(stmt)[1] \in {"x", "y"}
        /\ Strip(stmt)[2] = "="

Exec(s, stmt) ==
  IF Strip(stmt) = <<>> THEN s
  ELSE [s EXCEPT !.attrs[Strip(stmt)[1]] = Strip(stmt)[3]]

\* The lines applied one by one as setup applies a statement: a line that
\* raises is passed over and the next one is tried.
RECURSIVE ExecLines_skipping(_, _)
ExecLines_skipping(s, lines) ==
  IF lines = <<>> THEN s
  ELSE IF ~ExecOk(s, Head(lines)) THEN ExecLines_skipping(s, Tail(lines))
  ELSE ExecLines_skipping(Exec(s, Head(lines)), Tail(lines))

\* for line in f.readlines(): exec(line, ...), left at the first exception.
RECURSIVE ExecLines(_, _)
ExecLines(s, lines) ==
  IF lines = <<>> THEN s
  ELSE IF ~ExecOk(s, Head(lines)) THEN s
  ELSE ExecLines(Exec(s, Head(lines)), Tail(lines))

\* load_config that opens the file wherever it is, found or not.
load_config_unresolved(s, name, env) ==
  LET m == load_module(s, Strip(Head(FileLines(name))), env)
  IN  IF m.raised THEN [m EXCEPT !.raised = FALSE]
      ELSE ExecLines(m, Tail(FileLines(name)))

\* load_config: resolve the file, load the module its first line names,
\* exec the other lines; every exception is caught here.
load_config(s, name, env) ==
  IF ~InCwd(name) /\ ~InStudyPath(name) THEN s
  ELSE LET m == load_module(s, Strip(Head(FileLines(name))), env)
       IN  IF m.raised THEN [m EXCEPT !.raised = FALSE]
           ELSE ExecLines(m, Tail(FileLines(name)))

\* The dispatch with a setup branch that lets the exception of exec out.
Dispatch_setup_raises(s, item, env) ==
  LET cmd == Strip(PyStr(item))
  IN  IF cmd = T_start THEN start_module(s, env)
      ELSE IF cmd = T_cancel \/ cmd = T_stop THEN cancel_module(s, env)
      ELSE IF cmd = T_prune THEN prune_module(s, env)
      ELSE IF StartsWith(cmd, T_load) THEN load_module(s, From(cmd, 5), env)
      ELSE IF StartsWith(cmd, T_setup)
        THEN IF ExecOk(s, From(cmd, 6)) THEN Exec(s, From(cmd, 6)) ELSE Raise(s)
      ELSE IF StartsWith(cmd, T_config)
        THEN IF ~EndsWith(cmd, T_cfg)
             THEN load_config(s, From(cmd, 7) \o T_cfg, env)
             ELSE load_config(s, From(cmd, 7), env)
      ELSE s

\* The dispatch of _main_loop_tick on one dequeued item.
Dispatch(s, item, env) ==
  LET cmd == Strip(PyStr(item))
  IN  IF cmd = T_start THEN start_module(s, env)
      ELSE IF cmd = T_cancel \/ cmd = T_stop THEN cancel_module(s, env)
      ELSE IF cmd = T_prune THEN prune_module(s, env)
      ELSE IF StartsWith(cmd, T_load) THEN load_module(s, From(cmd, 5), env)
      ELSE IF StartsWith(cmd, T_setup)
        THEN IF ExecOk(s, From(cmd, 6)) THEN Exec(s, From(cmd, 6)) ELSE s
      ELSE IF StartsWith(cmd, T_config)
        THEN IF ~EndsWith(cmd, T_cfg)
             THEN load_config(s, From(cmd, 7) \o T_cfg, env)
             ELSE load_config(s, From(cmd, 7), env)
      ELSE s

\* ------------------------------------------------------------------ state

VARIABLES
  instance,         \* _instance: the held module instance, or None
  module,           \* _module: the name of the imported module
  executing,        \* _executing
  attrs,            \* the held instance's __dict__ entries x and y
  nextId,           \* the number the next constructed instance gets
  began,            \* the held instance had start() and no cancel() since
  pruned,           \* the held instance had prune()
  calls,            \* the calls on module instances made by the last step
  remote_commands,  \* _remote_commands: the queue
  pc,               \* where the main thread is
  lock,             \* shared_lock: "main" while the main thread holds it
  applied,          \* the item the last step dequeued and applied, if any
  pending,          \* items left of those queued when the tick began
  produced,         \* items put on the queue so far
  open,             \* the connections whose handler is reading
  origin,           \* for each queued item, who put it and as which put
  done              \* the same for the items applied so far, in order

vars == <<instance, module, executing, attrs, nextId, began, pruned, calls,
          remote_commands, pc, lock, applied, pending, produced, open,
          origin, done>>

session == <<instance, module, executing, attrs, nextId, began, pruned, calls>>

Conns == 1 .. NumConns

\* The session the methods start from in a step: the variables, no call yet.
Now == Session(instance, module, executing, attrs, nextId, began, pruned)

\* The variables take the session a method left.
Becomes(s) ==
  /\ instance' = s.instance
  /\ module' = s.module
  /\ executing' = s.executing
  /\ attrs' = s.attrs
  /\ nextId' = s.nextId
  /\ began' = s.began
  /\ pruned' = s.pruned
  /\ calls' = s.calls

\* ------------------------------------------------------------ construction

\* opts.module: none, a module, a module that is not found, a study config.
OptModules == {<<>>, M_a, M_n, F_s}

\* MainApp.__init__: load the module or config of the options, then start
\* it if autolaunch is set.
Construct(mod, autolaunch, env) ==
  LET s0 == Session(None, NoModule, FALSE, NoAttrs, 1, FALSE, FALSE)
      s1 == IF mod = <<>> THEN s0
            ELSE IF EndsWith(mod, T_cfg) THEN load_config(s0, mod, env)
            ELSE load_module(s0, mod, env)
  IN  IF s1.raised THEN s1
      ELSE IF autolaunch THEN start_module(s1, env) ELSE s1

\* The state when the main loop is entered; an exception of the constructor
\* is caught by the top-level handler, and the loop is never entered.
Init ==
  \E mod \in OptModules, autolaunch \in BOOLEAN, env \in Envs :
    LET s == Construct(mod, autolaunch, env)
    IN  /\ instance = s.instance
        /\ module = s.module
        /\ executing = s.executing
        /\ attrs = s.attrs
        /\ nextId = s.nextId
        /\ began = s.began
        /\ pruned = s.pruned
        /\ calls = s.calls
        /\ remote_commands = <<>>
        /\ pc = IF s.raised THEN "dead" ELSE "loop"
        /\ lock = "free"
        /\ applied = <<>>
        /\ pending = 0
        /\ produced = 0
        /\ open = {}
        /\ origin = <<>>
        /\ done = <<>>

\* --------------------------------------------------------------- producers

\* The key bindings of developer mode: f1, f2, f5.
KeyCmds == {T_start, T_cancel, T_prune}

\* The lines a client sends, as readline() returns them; the last two are
\* an empty line and the end of the stream.
Lines ==
  { T_start \o <<"\n">>, T_cancel \o <<"\n">>, T_load \o M_a \o <<"\n">>,
    <<"\n">>, <<>> }

\* Command text of the whole protocol.
TextCmds ==
  { T_start, T_cancel, T_stop, T_prune,
    T_load \o M_a, T_load \o M_b, T_load \o M_k, T_load \o M_n,
    T_setup \o A_x1, T_setup \o A_bad,
    T_config \o <<"s">>, T_config \o F_w, T_config \o F_m,
    <<"h", "i">> }

\* The key bindings and TextPut put as producer 0, a handler as its
\* connection.
Local == 0

\* A queue that hands out the newest item first.
Put_front(item, c) ==
  /\ produced < MaxCmds
  /\ remote_commands' = <<item>> \o remote_commands
  /\ origin' = <<[conn |-> c, n |-> produced + 1]>> \o origin
  /\ produced' = produced + 1
  /\ UNCHANGED done

\* A queue of one slot that drops what does not fit.
Put_lossy(item, c) ==
  /\ produced < MaxCmds
  /\ IF remote_commands = <<>>
     THEN /\ remote_commands' = <<item>>
          /\ origin' = <<[conn |-> c, n |-> produced + 1]>>
     ELSE UNCHANGED <<remote_commands, origin>>
  /\ produced' = produced + 1
  /\ UNCHANGED done

\* queue.Queue.put: the item goes to the back of the unbounded queue.
Put(item, c) ==
  /\ produced < MaxCmds
  /\ remote_commands' = Append(remote_commands, item)
  /\ origin' = Append(origin, [conn |-> c, n |-> produced + 1])
  /\ produced' = produced + 1
  /\ UNCHANGED done

\* A key binding that calls the method itself instead of queueing the
\* command.
KeyPress_direct(k) ==
  /\ pc \in {"step", "post"}
  /\ produced < MaxCmds
  /\ produced' = produced + 1
  /\ \E env \in Envs : Becomes(Dispatch(Now, Str(k), env))
  /\ UNCHANGED <<remote_commands, pc, lock, applied, pending, open, origin, done>>

\* A key binding fires: the event manager runs in the main thread's
\* taskMgr.step(), outside _main_loop_tick.
KeyPress(k) ==
  /\ pc \in {"step", "post"}
  /\ Put(Str(k), Local)
  /\ UNCHANGED <<session, pc, lock, applied, pending, open>>

\* A client connects: a handler thread starts.
Connect(c) ==
  /\ c \notin open
  /\ open' = open \cup {c}
  /\ UNCHANGED <<session, remote_commands, pc, lock, applied, pending, produced,
                 origin, done>>

\* A read loop that has no test for the empty line: it puts whatever it
\* reads and goes on.
handle_no_break(c, line) ==
  /\ c \in open
  /\ Put(Bytes(Strip(line)), c)
  /\ UNCHANGED <<session, pc, lock, applied, pending, open>>

\* ThreadedTCPRequestHandler.handle, one round of its loop: read a line and
\* strip it; leave on an empty one, else put it on the queue.
handle(c, line) ==
  /\ c \in open
  /\ IF Len(Strip(line)) = 0
     THEN /\ open' = open \ {c}
          /\ UNCHANGED <<remote_commands, produced, origin, done>>
     ELSE /\ Put(Bytes(Strip(line)), c)
          /\ UNCHANGED open
  /\ UNCHANGED <<session, pc, lock, applied, pending>>

\* ThreadedTCPRequestHandler.handle when readline() raises (the socket
\* fails): the bare except ends the handler, nothing is put.
ReadError(c) ==
  /\ c \in open
  /\ open' = open \ {c}
  /\ UNCHANGED <<session, remote_commands, pc, lock, applied, pending, produced,
                 origin, done>>

\* Command text is put on the queue as a str.
TextPut(t) ==
  /\ Put(Str(t), Local)
  /\ UNCHANGED <<session, pc, lock, applied, pending, open>>

\* --------------------------------------------------------------- main loop

\* while is_running: shared_lock.acquire(); app.taskMgr.step()
MainAcquire ==
  /\ pc = "loop"
  /\ lock = "free"
  /\ lock' = "main"
  /\ pc' = "step"
  /\ UNCHANGED <<session, remote_commands, applied, pending, produced, open,
                 origin, done>>

\* A task that begins without releasing the lock.
TickBegin_held ==
  /\ pc = "step"
  /\ pc' = "drain"
  /\ pending' = Len(remote_commands)
  /\ applied' = <<>>
  /\ calls' = <<>>
  /\ UNCHANGED <<instance, module, executing, attrs, nextId, began, pruned,
                 remote_commands, produced, open, origin, done, lock>>

\* _main_loop_tick is entered: shared_lock.release()
TickBegin ==
  /\ pc = "step"
  /\ lock' = "free"
  /\ pc' = "drain"
  /\ pending' = Len(remote_commands)
  /\ applied' = <<>>
  /\ calls' = <<>>
  /\ UNCHANGED <<instance, module, executing, attrs, nextId, began, pruned,
                 remote_commands, produced, open, origin, done>>

\* One round of the drain loop: get_nowait() returns an item, which is
\* dispatched; an exception of the dispatch leaves the tick and the loop.
ApplyCommand ==
  /\ pc = "drain"
  /\ remote_commands # <<>>
  /\ \E env \in Envs :
       LET s == Dispatch(Now, Head(remote_commands), env)
       IN  /\ Becomes(s)
           /\ pc' = IF s.raised THEN "dead" ELSE "drain"
  /\ remote_commands' = Tail(remote_commands)
  /\ applied' = << [item |-> Head(remote_commands), late |-> pending = 0] >>
  /\ pending' = IF pending > 0 THEN pending - 1 ELSE 0
  /\ origin' = Tail(origin)
  /\ done' = Append(done, Head(origin))
  /\ UNCHANGED <<lock, produced, open>>

\* A tick that leaves the drain loop once the items queued at its start are
\* applied, whatever has arrived since.
TickModule_snapshot ==
  /\ pc = "drain"
  /\ pending = 0
  /\ applied' = <<>>
  /\ pending' = 0
  /\ calls' = <<>>
  /\ pc' = "post"
  /\ lock' = "main"
  /\ UNCHANGED <<instance, module, executing, attrs, nextId, began, pruned,
                 remote_commands, produced, open, origin, done>>

\* get_nowait() raises queue.Empty: the drain loop is left, the module is
\* ticked if executing, the lock is taken again and the task returns.
TickModule ==
  /\ pc = "drain"
  /\ remote_commands = <<>>
  /\ applied' = <<>>
  /\ pending' = 0
  /\ IF instance # None /\ executing
     THEN \E ok \in BOOLEAN :
            /\ calls' = << [op |-> "tick", inst |-> instance, ok |-> ok] >>
            /\ pc' = IF ok THEN "post" ELSE "dead"
            /\ lock' = IF ok THEN "main" ELSE lock
     ELSE /\ calls' = <<>>
          /\ pc' = "post"
          /\ lock' = "main"
  /\ UNCHANGED <<instance, module, executing, attrs, nextId, began, pruned,
                 remote_commands, produced, open, origin, done>>

\* taskMgr.step() returns: shared_lock.release()
MainRelease ==
  /\ pc = "post"
  /\ lock' = "free"
  /\ pc' = "loop"
  /\ UNCHANGED <<session, remote_commands, applied, pending, produced, open,
                 origin, done>>

Next ==
  \/ MainAcquire
  \/ TickBegin
  \/ ApplyCommand
  \/ TickModule
  \/ MainRelease
  \/ \E k \in KeyCmds : KeyPress(k)
  \/ \E c \in Conns : Connect(c)
  \/ \E c \in Conns, line \in Lines : handle(c, line)
  \/ \E c \in Conns : ReadError(c)

\* The launcher as shipped.
Spec == Init /\ [][Next]_vars

NextText ==
  \/ MainAcquire
  \/ TickBegin
  \/ ApplyCommand
  \/ TickModule
  \/ MainRelease
  \/ \E t \in TextCmds : TextPut(t)

\* The main loop fed with the command text of the whole protocol as str
\* items, the form the dispatch of _main_loop_tick compares against.  In the
\* launcher as shipped only the key bindings put str items (start, cancel,
\* prune); a connection's line arrives as bytes, whose str() is b'...'.
SpecText == Init /\ [][NextText]_vars

\* ------------------------------------------------------------- properties

\* The command text the last step applied, or empty.
AppliedCmd == IF applied # <<>> THEN Strip(PyStr(applied[1].item)) ELSE <<>>

\* The command text the drain loop is about to take.
HeadCmd == Strip(PyStr(Head(remote_commands)))

\* The step is a round of the drain loop: an item leaves the queue.
ApplyStep == Len(remote_commands') < Len(remote_commands)

NumCalls(cs, op) == Cardinality({i \in DOMAIN cs : cs[i].op = op})

Ops(cs) == [i \in DOMAIN cs |-> cs[i].op]

\* From an instance that has (b) or has not had start() with no cancel()
\* since, the calls cs hold a start() that follows a start() with no
\* cancel() between.
RECURSIVE Stacked(_, _)
Stacked(b, cs) ==
  IF cs = <<>> THEN FALSE
  ELSE IF Head(cs).op = "start" THEN b \/ Stacked(TRUE, Tail(cs))
  ELSE IF Head(cs).op = "cancel" THEN Stacked(FALSE, Tail(cs))
  ELSE Stacked(b, Tail(cs))

\* C1: whatever commands are applied, every start() is a call on an
\* instance that a completed load constructed; start does nothing while no
\* instance is held.
C1_NoOrphanStart ==
  /\ \A i \in DOMAIN calls :
       calls[i].op = "start" => calls[i].inst \in 1 .. (nextId - 1)
  /\ (AppliedCmd = T_start /\ instance = None) => calls = <<>>

\* C1 witness: start was applied while no instance was held.
C1_Witness == AppliedCmd = T_start /\ instance = None /\ calls = <<>>

\* C2: while the frame loop runs and the session is executing, an instance
\* is held that has had start() and no cancel() since.
C2_RunningImpliesStarted ==
  (pc # "dead" /\ executing) => (instance # None /\ began)

\* C3: prune applied with an instance held calls prune() once, releases the
\* instance and leaves the session not executing.
C3_PruneReleases ==
  (AppliedCmd = T_prune /\ calls # <<>>) =>
    (Ops(calls) = <<"prune">> /\ instance = None /\ ~executing)

\* C4: start applied while executing calls cancel() and then start() on the
\* held instance, once each, and leaves the session executing (a call that
\* raises ends the sequence and the loop); no step calls start() on an
\* instance that has had start() with no cancel() since.
C4_RestartCancelsFirst ==
  [][ApplyStep =>
        /\ ~Stacked(began, calls')
        /\ (HeadCmd = T_start /\ instance # None /\ executing) =>
             /\ \A i \in DOMAIN calls' : calls'[i].inst = instance
             /\ IF pc' = "dead"
                THEN Ops(calls') \in {<<"cancel">>, <<"cancel", "start">>}
                ELSE Ops(calls') = <<"cancel", "start">> /\ executing']_vars

\* C4 witness: start was applied while executing, and the session executes.
C4_Witness ==
  /\ AppliedCmd = T_start
  /\ Ops(calls) = <<"cancel", "start">>
  /\ executing
  /\ pc = "drain"

\* C5, as claimed: an item applied by a tick was queued when the tick began.
C5_SnapshotDrain == applied # <<>> => ~applied[1].late

\* C5, amended: a tick leaves its drain loop only on finding the queue
\* empty, so an item put while the loop runs is applied in the same tick.
C5_DrainUntilEmpty ==
  [][(pc = "drain" /\ pc' # "drain" /\ ~ApplyStep) => remote_commands = <<>>]_vars

\* C5 witness: a tick applied an item that was put after the tick began.
C5_Witness == applied # <<>> /\ applied[1].late /\ pc = "drain"

\* C6: a load of a module that is not found does not end the frame loop.
C6_FailedLoadNotFatal ==
  (StartsWith(AppliedCmd, T_load) /\ ~CanImport(From(AppliedCmd, 5))) =>
    pc # "dead"

\* The step applies a load, or a config whose load step fails.
FailedLoadStep ==
  /\ ApplyStep
  /\ \/ /\ StartsWith(HeadCmd, T_load)
        /\ ~CanConstruct(From(HeadCmd, 5))
     \/ HeadCmd = T_config \o F_w

\* C7: a load or config whose module cannot be resolved or constructed
\* leaves the session as it was: the same instance, the same executing
\* flag, and no prune() of the held instance.
C7_FailedLoadLeavesSession ==
  [][FailedLoadStep =>
        /\ instance' = instance
        /\ executing' = executing
        /\ calls' = <<>>]_vars

\* C8: a start line from a connection, applied with an instance held, does
\* what the start of the f1 key does: start() is called once and the
\* session executes.
C8_RemoteAsLocal ==
  ( /\ applied # <<>>
    /\ applied[1].item = Bytes(T_start)
    /\ instance # None
    /\ pc # "dead" ) =>
  (NumCalls(calls, "start") = 1 /\ executing)

\* C9: load calls prune() once, on the instance held when it is applied,
\* and not at all when none is held.
C9_LoadPrunesPrior ==
  [][(ApplyStep /\ StartsWith(HeadCmd, T_load)) =>
        /\ NumCalls(calls', "prune") = (IF instance # None THEN 1 ELSE 0)
        /\ \A i \in DOMAIN calls' : calls'[i].inst = instance]_vars

\* C9 witness: a load replaced a held instance, pruning it.
C9_Witness ==
  /\ StartsWith(AppliedCmd, T_load)
  /\ NumCalls(calls, "prune") = 1
  /\ instance > 1
  /\ calls[1].inst = instance - 1

\* C10: prune applied with no instance held makes no call and changes
\* nothing of the session.
C10_PruneUnloadedNoOp ==
  [][(ApplyStep /\ HeadCmd = T_prune /\ instance = None) =>
        /\ calls' = <<>>
        /\ UNCHANGED <<instance, module, executing, attrs, nextId>>
        /\ pc' = "drain"]_vars

\* C10 witness: prune was applied with no instance held.
C10_Witness ==
  AppliedCmd = T_prune /\ instance = None /\ ~executing /\ calls = <<>>

\* The items of s that producer c put.
OfConn(s, c) == SelectSeq(s, LAMBDA t : t.conn = c)

\* The puts of s are in the order in which they were made, none twice.
InPutOrder(s) == \A i, j \in DOMAIN s : i < j => s[i].n < s[j].n

\* C11: the commands one connection submitted are dequeued and applied in
\* the order in which that connection sent them, whatever the other
\* connections and the ticks do in between, and none is applied twice: of
\* each producer, the items applied so far followed by the items still
\* queued are in the order of their puts.
C11_PerConnectionOrder ==
  \A c \in Conns \cup {Local} : InPutOrder(OfConn(done \o origin, c))

\* C11 witness: two lines of one connection have both been applied.
C11_Witness ==
  \E c \in Conns : Len(OfConn(done, c)) >= 2 /\ origin = <<>>

\* The launcher with a frame loop that keeps stepping: `while is_running`
\* takes the lock, steps the task manager and releases the lock again, and
\* inside the task the drain loop and the module's tick run to their end.
\* Nothing is assumed of the producers.
FairSpec ==
  /\ Spec
  /\ WF_vars(MainAcquire)
  /\ WF_vars(TickBegin)
  /\ WF_vars(ApplyCommand)
  /\ WF_vars(TickModule)
  /\ WF_vars(MainRelease)

\* The n-th put has been dequeued and dispatched.
Applied(n) == \E i \in DOMAIN done : done[i].n = n

\* C12: no enqueued command is lost: while the frame loop keeps ticking,
\* every command put on the queue is eventually dequeued and applied by a
\* tick, unless a fatal error has ended the loop.
C12_NoCommandLost ==
  \A n \in 1 .. MaxCmds : (produced >= n) ~> (Applied(n) \/ pc = "dead")

\* C12 witness: every command that was put has been applied and the loop is
\* still running.
C12_Witness ==
  /\ produced = MaxCmds
  /\ \A n \in 1 .. MaxCmds : Applied(n)
  /\ pc = "loop"

\* The session is Running: an instance is held and executing is set.
Running == instance # None /\ executing

\* The drain loop is about to apply cancel or its alias stop.
CancelStep == ApplyStep /\ HeadCmd \in {T_cancel, T_stop}

\* C13: applying cancel (or stop) calls the held instance's cancel() once
\* if the session is Running and makes no call otherwise; the instance and
\* its module stay as they were; once cancel() has returned the session is
\* not Running; and with a session that is not Running nothing changes.
C13_CancelOnceIfRunning ==
  [][CancelStep =>
       /\ Ops(calls') = IF Running THEN <<"cancel">> ELSE <<>>
       /\ \A i \in DOMAIN calls' : calls'[i].inst = instance
       /\ UNCHANGED <<instance, module, attrs, nextId, pruned>>
       /\ (\A i \in DOMAIN calls' : calls'[i].ok) => ~executing' /\ pc' = "drain"
       /\ ~Running => UNCHANGED <<executing, began>>]_vars

\* C13 witness: stop was applied to a Running session: one cancel() on the
\* held instance, which is still held and no longer executing.
C13_Witness ==
  /\ AppliedCmd = T_stop
  /\ calls = <<[op |-> "cancel", inst |-> instance, ok |-> TRUE]>>
  /\ instance # None
  /\ ~executing

\* The step ends the drain loop and goes on to the module's tick.
TickStep == pc = "drain" /\ pc' \in {"post", "dead"} /\ ~ApplyStep

\* C14: in each tick the module's tick() is called after all the drained
\* commands were applied, once if the session is then Running and not at
\* all otherwise, so that a tick whose last drained command was cancel,
\* stop or prune makes no tick() call.
C14_TickAfterDrain ==
  [][TickStep =>
       /\ remote_commands = <<>>
       /\ Ops(calls') = IF Running THEN <<"tick">> ELSE <<>>
       /\ AppliedCmd \in {T_cancel, T_stop, T_prune} => calls' = <<>>]_vars

\* The file name that the config branch of the dispatch hands to
\* load_config for the command text cmd.
ConfigFile(cmd) ==
  IF EndsWith(cmd, T_cfg) THEN From(cmd, 7) ELSE From(cmd, 7) \o T_cfg

\* The drain loop is about to apply a config command whose file is found
\* neither in the working directory nor under the study path.
UnresolvedConfigStep ==
  /\ ApplyStep
  /\ StartsWith(HeadCmd, T_config)
  /\ ~InCwd(ConfigFile(HeadCmd))
  /\ ~InStudyPath(ConfigFile(HeadCmd))

\* C15: a config command whose file is found neither in the working
\* directory nor under the study path leaves the session and the held
\* instance as they were and makes no call on any module instance.
C15_UnresolvedConfigNoOp ==
  [][UnresolvedConfigStep =>
       /\ UNCHANGED <<instance, module, executing, attrs, nextId, began, pruned>>
       /\ calls' = <<>>
       /\ pc' = "drain"]_vars

\* C15 witness: `config m.cfg`, a file found nowhere, was applied while an
\* instance was held.
C15_Witness ==
  /\ AppliedCmd = T_config \o F_m
  /\ instance # None
  /\ calls = <<>>
  /\ pc = "drain"

\* A start(), cancel() or tick() of the running step has raised.
FatalCall ==
  \E i \in DOMAIN calls :
    calls[i].op \in {"start", "cancel", "tick"} /\ ~calls[i].ok

\* C16: a start(), cancel() or tick() that raises during a tick is not
\* recovered from: the exception leaves the task and ends the frame loop,
\* after which no tick begins, no queued command is applied and no call is
\* made on a module instance.
C16_FailureEndsLoop ==
  /\ [](FatalCall => pc = "dead")
  /\ [][pc = "dead" =>
          /\ pc' = "dead"
          /\ ~ApplyStep
          /\ UNCHANGED <<session, applied, done, lock>>]_vars

\* C16 witness: start() raised while a later command was queued; the loop
\* has ended with that command still on the queue.
C16_Witness ==
  /\ pc = "dead"
  /\ AppliedCmd = T_start
  /\ calls # <<>>
  /\ calls[Len(calls)] = [op |-> "start", inst |-> instance, ok |-> FALSE]
  /\ remote_commands # <<>>

\* The drain loop is about to apply a setup command whose statement
\* raises: a statement that is no assignment, or any statement while no
\* instance is held.
FailingSetupStep ==
  /\ ApplyStep
  /\ StartsWith(HeadCmd, T_setup)
  /\ ~ExecOk(Now, From(HeadCmd, 6))

\* C17: a setup command whose assignment fails, the one applied with no
\* instance held included, is ignored: the session and the instance stay
\* as they were, no call is made, and the drain loop goes on with the
\* commands that remain.
C17_FailedSetupIgnored ==
  [][FailingSetupStep =>
       /\ UNCHANGED <<instance, module, executing, attrs, nextId, began, pruned>>
       /\ calls' = <<>>
       /\ remote_commands' = Tail(remote_commands)
       /\ pc' = "drain"]_vars

\* C17 witness: a setup was applied with no instance held, and the drain
\* loop goes on with a command that was queued behind it.
C17_Witness ==
  /\ StartsWith(AppliedCmd, T_setup)
  /\ instance = None
  /\ pc = "drain"
  /\ remote_commands # <<>>

\* The step applies a load of a module that imports and constructs, with
\* an instance held whose prune() raises.
LoadOverFailingPruneStep ==
  /\ ApplyStep
  /\ StartsWith(HeadCmd, T_load)
  /\ CanConstruct(From(HeadCmd, 5))
  /\ instance # None
  /\ \E i \in DOMAIN calls' : calls'[i].op = "prune" /\ ~calls'[i].ok

\* C18: when the prune() of the instance that a load retires raises, the
\* exception is caught and the load goes on: prune() was tried once, on
\* the old instance, the named module is constructed and its instance is
\* the one held, and the drain loop continues.
C18_LoadSurvivesFailedPrune ==
  [][LoadOverFailingPruneStep =>
       /\ calls' = <<[op |-> "prune", inst |-> instance, ok |-> FALSE]>>
       /\ instance' = nextId
       /\ instance' # instance
       /\ module' = From(HeadCmd, 5)
       /\ ~pruned'
       /\ pc' = "drain"]_vars

\* C18 witness: `load b` was applied over a held instance whose prune()
\* raised; a new instance of b is held.
C18_Witness ==
  /\ AppliedCmd = T_load \o M_b
  /\ instance > 1
  /\ calls = <<[op |-> "prune", inst |-> instance - 1, ok |-> FALSE]>>
  /\ module = M_b
  /\ pc = "drain"

\* The drain loop is about to apply a config command for s.cfg, which lies
\* under the study path and holds the lines a, x=1, x= and y=2.
ConfigStep ==
  /\ ApplyStep
  /\ StartsWith(HeadCmd, T_config)
  /\ ConfigFile(HeadCmd) = F_s

\* C19: a config command for a file that resolves and whose first line
\* names a loadable module loads that module and applies every other line
\* as an assignment to the new instance in file order, a failing line
\* being passed over without keeping the later ones from being applied;
\* the command is never fatal.
C19_ConfigAppliesEveryLine ==
  [][ConfigStep =>
       /\ instance' = nextId
       /\ module' = M_a
       /\ attrs' = [x |-> "1", y |-> "2"]
       /\ pc' = "drain"]_vars

\* C19 as the code has it: the module is loaded and the lines are applied
\* in file order up to the first line that raises; that exception is
\* caught, the lines after it are not applied, and the command is never
\* fatal.
C19_ConfigStopsAtFailingLine ==
  [][ConfigStep =>
       /\ instance' = nextId
       /\ module' = M_a
       /\ attrs' = [x |-> "1", y |-> "unset"]
       /\ NumCalls(calls', "prune") = (IF instance # None THEN 1 ELSE 0)
       /\ Ops(calls') \in {<<>>, <<"prune">>}
       /\ pc' = "drain"]_vars

\* C19 witness: `config s` was applied: a new instance of a is held with
\* x assigned and y, whose line follows the failing one, not assigned.
C19_Witness ==
  /\ AppliedCmd = T_config \o <<"s">>
  /\ module = M_a
  /\ instance # None
  /\ attrs = [x |-> "1", y |-> "unset"]
  /\ pc = "drain"

\* The step is one of a producer: a key binding or a handler put an item, or
\* a connection was opened or closed.
ProducerStep == produced' # produced \/ open' # open

\* The queue has at most gained items at its back.
Enqueued ==
  /\ Len(remote_commands') >= Len(remote_commands)
  /\ SubSeq(remote_commands', 1, Len(remote_commands)) = remote_commands

\* C20: the calls on the module instance and every change of the held
\* instance or of the executing flag are made by the frame loop's task
\* alone: a step of a connection handler or of a key binding only puts on
\* the queue and leaves the session, the task's position and the lock as
\* they are.
C20_OnlySchedulerActs ==
  [][/\ ProducerStep => Enqueued /\ UNCHANGED <<session, pc, lock, applied, done>>
     /\ (calls' # calls /\ calls' # <<>>) => pc = "drain"
     /\ (instance' # instance \/ executing' # executing) => pc = "drain"]_vars

\* C20 witness: the task, in its drain loop, has applied a key's start and
\* called start() while a connection's line waits on the queue.
C20_Witness ==
  /\ pc = "drain"
  /\ executing
  /\ AppliedCmd = T_start
  /\ Ops(calls) = <<"start">>
  /\ done # <<>> /\ done[Len(done)].conn = Local
  /\ \E i \in DOMAIN origin : origin[i].conn \in Conns

\* The step holds a shared_lock.acquire() of the main thread: the one of
\* the frame loop or the one that ends _main_loop_tick.
AcquireStep ==
  \/ pc = "loop" /\ pc' = "step"
  \/ pc = "drain" /\ pc' = "post"

\* The step holds a shared_lock.release() of the main thread: the one that
\* begins _main_loop_tick or the one of the frame loop.
ReleaseStep ==
  \/ pc = "step" /\ pc' = "drain"
  \/ pc = "post" /\ pc' = "loop"

\* C21: in every tick the lock is released before the first command is
\* dequeued and taken again only after the module's tick: the main thread
\* does not hold it while commands are applied and the module is ticked
\* and holds it in the rest of the frame; it releases only a lock it holds
\* and acquires only a lock it does not hold.
C21_LockDiscipline ==
  /\ [](pc = "drain" => lock = "free")
  /\ [](pc \in {"step", "post"} => lock = "main")
  /\ [][/\ AcquireStep => lock = "free" /\ lock' = "main"
        /\ ReleaseStep => lock = "main" /\ lock' = "free"
        /\ (ApplyStep \/ TickStep) => lock = "free"
        /\ ~(AcquireStep \/ ReleaseStep) => lock' = lock]_vars

\* C21 witness: a tick has applied a command and ticked the module with
\* the lock released, and holds the lock again.
C21_Witness ==
  /\ pc = "post"
  /\ lock = "main"
  /\ done # <<>>
  /\ Ops(calls) = <<"tick">>

\* The step puts an item of connection c on the queue.
PutBy(c) ==
  /\ Len(origin') > Len(origin)
  /\ origin'[Len(origin')].conn = c

\* The step ends the read loop of connection c.
CloseOf(c) == c \in open /\ c \notin open'

\* C22: a connection's read loop puts each non-empty trimmed line once, at
\* the back of the queue, and only while the connection is being read;
\* the step that ends it on an empty line, a closed socket or a read error
\* puts nothing and leaves the queued commands, the other connections, the
\* session and the frame loop as they are.
C22_ReadLoop ==
  [][\A c \in Conns :
       /\ PutBy(c) =>
            /\ c \in open /\ open' = open
            /\ \E line \in Lines :
                 /\ Strip(line) # <<>>
                 /\ remote_commands' = Append(remote_commands, Bytes(Strip(line)))
            /\ UNCHANGED <<session, pc, lock, applied, done>>
       /\ CloseOf(c) =>
            /\ open' = open \ {c}
            /\ UNCHANGED <<session, remote_commands, origin, produced, pc, lock,
                           applied, done>>]_vars

\* C22 witness: a connection has ended with a line of its own still on
\* the queue while another connection is being read.
C22_Witness ==
  \E c \in Conns :
    /\ c \notin open
    /\ open # {}
    /\ \E i \in DOMAIN origin :
         origin[i].conn = c /\ remote_commands[i] = Bytes(T_start)

\* C23: once prune() has been called on an instance, by a prune command
\* or by a load that retires it, no later command or tick calls a method
\* on that instance: the calls of a step are not on a held instance that
\* was pruned before, and none follows a prune() of the same instance
\* within the step.
C23_NoCallAfterPrune ==
  [][(ApplyStep \/ TickStep) =>
       /\ pruned => \A i \in DOMAIN calls' : calls'[i].inst # instance
       /\ \A i, j \in DOMAIN calls' :
            (i < j /\ calls'[i].op = "prune") => calls'[j].inst # calls'[i].inst]_vars

====
